---- MODULE Spec2Model ----
(***************************************************************************)
(* A model of witchcraft-metrics' Meter (src/witchcraft-metrics/src/       *)
(* meter.rs): the atomics uncounted and last_tick, the mutex-protected     *)
(* State (count and five Ewmas), and the callers of mark, count, the       *)
(* windowed-rate accessors and mean_rate, interleaved at every atomic      *)
(* operation and lock acquisition.                                         *)
(*                                                                         *)
(* Numbers.  An f64 is modelled in fixed point: the integer x stands for   *)
(* x / Scale, and every multiplication and division rounds to the nearest  *)
(* multiple of 1 / Scale.  std::time::Instant is modelled as a whole       *)
(* number of 1 / SubSec seconds.  A u64 is modelled by the integer         *)
(* congruent to it modulo 2^64 that is nearest to zero: a negative integer *)
(* x stands for 2^64 + x, the value a wrapping subtraction produces.       *)
(***************************************************************************)
EXTENDS Integers, Sequences, FiniteSets, TLC

\* ------------------------------------------------------------------ bounds

\* Concurrent callers (Spec): the clock stops at MaxClock (in 1 / SubSec
\* seconds) and at most MaxMarks calls of mark are started.
MaxClock == 12

MaxMarks == 2

\* One caller (SeqSpec): the same bounds, wider.
SeqMaxClock == 41

SeqMaxMarks == 3

\* The callers.
Threads == {"t1", "t2"}

SeqThreads == {"t1"}

\* The arguments of mark.
MarkVals == {-1, 1, 2}

\* The durations the clock advances by (in 1 / SubSec seconds): to just
\* before and just after an interval's end, and for SeqSpec by several
\* intervals.
AdvanceSteps == {9, 11}

SeqAdvanceSteps == {9, 11, 20}

\* --------------------------------------------------------------- constants

INTERVAL_SECS == 5

\* Instants per second: Duration::as_secs truncates, as_secs_f64 does not.
SubSec == 2

\* The fixed-point unit of an f64, and its number of decimal digits.
Scale == 10000

ScaleDigits == 4

\* i32::MAX, the largest tick count Ewma::decay passes to powi.
I32Max == 2147483647

\* The tolerance of the tests' assert_approx_eq!, 0.001, in fixed point.
Tolerance == 10

Windows == <<"rate_10s", "rate_30s", "rate_1m", "rate_5m", "rate_15m">>

WindowedOps == {Windows[i] : i \in 1..Len(Windows)}

None == "none"

\* f64's two infinities, the results of dividing a non-zero count by 0.0.
PosInf == I32Max

NegInf == 0 - I32Max

\* ------------------------------------------------------------ f64 and u64

\* a * b and a / b on f64, rounded to the nearest point of the fixed-point
\* grid; a non-zero a divided by 0.0 is an infinity.
FMul(a, b) == (2 * a * b + Scale) \div (2 * Scale)

RECURSIVE LongDiv(_, _, _, _)
\* q + r / b with `digits` more decimal digits, rounded to the nearest (b > 0,
\* 0 <= r < b): the division is done digit by digit to stay within 32 bits.
LongDiv(q, r, b, digits) ==
    IF digits = 0
    THEN (IF 2 * r >= b THEN q + 1 ELSE q)
    ELSE LongDiv(10 * q + (10 * r) \div b, (10 * r) % b, b, digits - 1)

Abs(a) == IF a < 0 THEN 0 - a ELSE a

FDiv(a, b) ==
    IF b = 0
    THEN (IF a > 0 THEN PosInf ELSE NegInf)
    ELSE LET q == LongDiv(Abs(a) \div b, Abs(a) % b, b, ScaleDigits)
         IN  IF a < 0 THEN 0 - q ELSE q

\* An integer as f64 (`as f64`).
ToF(n) == n * Scale

RECURSIVE ExpTerms(_, _, _)
\* The terms k, k + 1, ... of the series of exp(x), term being the term k - 1.
ExpTerms(x, term, k) ==
    LET next == FDiv(FMul(term, x), ToF(k))
    IN  IF next = 0 \/ k > 12 THEN 0 ELSE next + ExpTerms(x, next, k + 1)

\* f64::exp, by its power series.
Exp(x) == Scale + ExpTerms(x, Scale, 1)

RECURSIVE Powi(_, _)
\* f64::powi for an exponent >= 0.
Powi(x, n) == IF n = 0 THEN Scale ELSE FMul(x, Powi(x, n - 1))

RECURSIVE PowMod(_, _, _)
\* base^e modulo m.
PowMod(base, e, m) ==
    IF e = 0 THEN 1 % m
    ELSE IF e % 2 = 0
         THEN LET half == PowMod(base, e \div 2, m) IN (half * half) % m
         ELSE (base * PowMod(base, e - 1, m)) % m

\* a < b on u64.
U64Less(a, b) == IF (a < 0) = (b < 0) THEN a < b ELSE b < 0

\* a - b on u64, wrapping.  It overflows exactly when a < b.
WrapSub(a, b) == a - b

\* x % m on u64: a negative x stands for 2^64 + x.
U64Mod(x, m) == IF x >= 0 THEN x % m ELSE ((x % m) + PowMod(2, 64, m)) % m

\* x / m on u64.  The quotient of a wrapped x lies between i32::MAX and 2^63
\* and fits no integer of the model: it is represented by a negative number,
\* which like it exceeds i32::MAX and stays so when 1 is subtracted.
U64Div(x, m) == x \div m

\* i32::try_from(ticks).is_ok()
TryFromI32Ok(ticks) == ticks >= 0 /\ ticks <= I32Max

\* ------------------------------------------------------------------- Ewma

SECONDS_PER_MINUTE == 60

\* The minutes each window's Ewma is constructed with, as f64.
Minutes(w) ==
    CASE w = "rate_10s" -> (16 * Scale) \div 100
      [] w = "rate_30s" -> (5 * Scale) \div 10
      [] w = "rate_1m"  -> ToF(1)
      [] w = "rate_5m"  -> ToF(5)
      [] w = "rate_15m" -> ToF(15)

EwmaNew(minutes) ==
    [rate |-> 0,
     alpha |-> ToF(1) - Exp(FDiv(FDiv(0 - ToF(INTERVAL_SECS), ToF(SECONDS_PER_MINUTE)),
                                 minutes)),
     initialized |-> FALSE]

\* EwmaTick that blends the first count with the initial rate as well.
EwmaTickBlends(e, count) ==
    LET instant_rate == FDiv(ToF(count), ToF(INTERVAL_SECS))
    IN  [e EXCEPT !.rate = e.rate + FMul(e.alpha, instant_rate - e.rate),
                  !.initialized = TRUE]

\* EwmaTick whose instant rate counts one event more than were marked.
EwmaTickOneMore(e, count) ==
    LET instant_rate == FDiv(ToF(count + 1), ToF(INTERVAL_SECS))
    IN  IF e.initialized
        THEN [e EXCEPT !.rate = e.rate + FMul(e.alpha, instant_rate - e.rate)]
        ELSE [e EXCEPT !.rate = instant_rate, !.initialized = TRUE]

EwmaTick(e, count) ==
    LET instant_rate == FDiv(ToF(count), ToF(INTERVAL_SECS))
    IN  IF e.initialized
        THEN [e EXCEPT !.rate = e.rate + FMul(e.alpha, instant_rate - e.rate)]
        ELSE [e EXCEPT !.rate = instant_rate, !.initialized = TRUE]

\* EwmaDecay with alpha in the place of 1 - alpha.
EwmaDecayAlpha(e, ticks) ==
    IF TryFromI32Ok(ticks)
    THEN [e EXCEPT !.rate = FMul(e.rate, Powi(e.alpha, ticks))]
    ELSE [e EXCEPT !.rate = 0]

\* EwmaDecay with one tick too many.
EwmaDecayOneMore(e, ticks) ==
    IF TryFromI32Ok(ticks)
    THEN [e EXCEPT !.rate = FMul(e.rate, Powi(ToF(1) - e.alpha, ticks + 1))]
    ELSE [e EXCEPT !.rate = 0]

EwmaDecay(e, ticks) ==
    IF TryFromI32Ok(ticks)
    THEN [e EXCEPT !.rate = FMul(e.rate, Powi(ToF(1) - e.alpha, ticks))]
    ELSE [e EXCEPT !.rate = 0]

EwmaGet(e) == e.rate

\* ------------------------------------------------------------------ state

VARIABLES
    uncounted,        \* Meter.uncounted: AtomicI64
    last_tick,        \* Meter.last_tick: AtomicU64
    start_time,       \* Meter.start_time: Instant
    clock,            \* what Meter.clock.now() returns
    state,            \* Meter.state: the State the mutex protects
    lock,             \* the thread that holds the mutex, or None
    overflow_checks,  \* whether the build checks integer overflow: "on" (it
                      \* panics), "off" (it wraps), or "any" while no
                      \* subtraction has overflowed and it made no difference
    pc,               \* each thread's position in its call
    frame,            \* each thread's locals
    marked,           \* history: the sum of every n a fetch_add has added
    nmarks,           \* history: the number of mark calls started
    settled,          \* history, kept for a single caller only ("off"
                      \* otherwise): whether, since the clock last advanced
                      \* or mark was last called, a windowed-rate accessor
                      \* has returned ("rate"), or only count or mean_rate
                      \* ("count"), or no accessor (None)
    pre,              \* history, kept for a single caller only: uncounted,
                      \* last_tick and state as its last call of mark or of
                      \* a windowed-rate accessor found them
    steps             \* history: the interval steps the ticks completed so
                      \* far have applied to each Ewma, a tick(delta) being
                      \* one step and a decay(k) being k steps: the number
                      \* steps.q * ((2^64 - 1) / 5) + steps.r

vars ==
    <<uncounted, last_tick, start_time, clock, state, lock, overflow_checks,
      pc, frame, marked, nmarks, settled, pre, steps>>

meter == <<uncounted, last_tick, start_time, state, lock, overflow_checks>>

hist == <<marked, nmarks, settled, pre, steps>>

\* A thread's locals outside a call.  ticked and won_before are history:
\* whether this call's compare_exchange succeeded, and the threads whose
\* compare_exchange had succeeded, and whose tick was still to be applied,
\* when this call started.
NoFrame ==
    [op |-> None, n |-> 0, time |-> 0, old_tick |-> 0, uncounted |-> 0,
     i |-> 0, count |-> 0, ret |-> 0, ticked |-> FALSE, won_before |-> {}]

StateNew ==
    [count |-> 0,
     rate_10s |-> EwmaNew(Minutes("rate_10s")),
     rate_30s |-> EwmaNew(Minutes("rate_30s")),
     rate_1m |-> EwmaNew(Minutes("rate_1m")),
     rate_5m |-> EwmaNew(Minutes("rate_5m")),
     rate_15m |-> EwmaNew(Minutes("rate_15m"))]

\* Meter::new_with, by a clock that shows half a second.
MeterNew ==
    /\ clock = 1
    /\ uncounted = 0
    /\ last_tick = 0
    /\ start_time = clock
    /\ state = StateNew
    /\ lock = None
    /\ overflow_checks = "any"
    /\ pc = [t \in Threads |-> "idle"]
    /\ frame = [t \in Threads |-> NoFrame]
    /\ marked = 0
    /\ nmarks = 0
    /\ steps = [q |-> 0, r |-> 0]

Snapshot == [uncounted |-> uncounted, last_tick |-> last_tick, state |-> state]

Init == MeterNew /\ settled = "off" /\ pre = Snapshot

SeqInit == MeterNew /\ settled = None /\ pre = Snapshot

\* ------------------------------------------------- the locals of a tick

\* Duration::as_secs of time - start_time.
AsSecs(duration) == duration \div SubSec

\* Duration::as_secs_f64 of time - start_time.
AsSecsF64(duration) == FDiv(ToF(duration), ToF(SubSec))

NewTick(t) == AsSecs(frame[t].time - start_time)

Age(t) == WrapSub(NewTick(t), frame[t].old_tick)

\* NewIntervalStartTick as one interval after old_tick, however many elapsed.
NewIntervalStartTickNext(t) == frame[t].old_tick + INTERVAL_SECS

NewIntervalStartTick(t) == WrapSub(NewTick(t), U64Mod(Age(t), INTERVAL_SECS))

RequiredTicks(t) == U64Div(Age(t), INTERVAL_SECS)

\* required_ticks as the number q * ((2^64 - 1) / 5) + r: the quotient of a
\* wrapped age, 2^64 + Age(t) = 5 * ((2^64 - 1) / 5) + 1 + Age(t), is
\* (2^64 - 1) / 5 + (1 + Age(t)) / 5, the last division rounding down.
RequiredSteps(t) ==
    IF Age(t) >= 0
    THEN [q |-> 0, r |-> Age(t) \div INTERVAL_SECS]
    ELSE [q |-> 1, r |-> (1 + Age(t)) \div INTERVAL_SECS]

\* Where a caller of tick_if_necessary goes on when it returns.
AfterTick(t) == IF frame[t].op = "mark" THEN "add" ELSE "read"

\* ---------------------------------------------------------------- actions

Goto(t, label) == pc' = [pc EXCEPT ![t] = label]

\* The locals a caller keeps once tick_if_necessary has returned.
Leave(f) == [f EXCEPT !.time = 0, !.old_tick = 0, !.uncounted = 0, !.i = 0]

\* The history of a single caller's calls.
Track(v) == settled' = IF settled = "off" THEN "off" ELSE v

TrackPre == pre' = IF settled = "off" THEN pre ELSE Snapshot

\* The positions between a successful compare_exchange and the end of the
\* tick it announces.
InFlight == {"lock", "swap", "fold", "ewma"}

\* A thread calls mark(n), which does not look at n before its fetch_add
\* (MarkAdd): the value of n is left open until then.  tick_if_necessary
\* starts with let time = self.clock.now().
CallMark(t) ==
    /\ pc[t] = "idle"
    /\ nmarks' = nmarks + 1
    /\ frame' = [frame EXCEPT ![t] = [NoFrame EXCEPT !.op = "mark", !.time = clock]]
    /\ Goto(t, "load")
    /\ Track(None)
    /\ TrackPre
    /\ UNCHANGED <<meter, clock, marked, steps>>

\* A thread calls one of ten_second_rate, ..., fifteen_minute_rate, which
\* differ only in the rate they read in the end (RateRead): which one it is
\* is left open until then.  tick_if_necessary starts with
\* let time = self.clock.now().
CallRate(t) ==
    /\ pc[t] = "idle"
    /\ frame' = [frame EXCEPT ![t] =
                    [NoFrame EXCEPT
                       !.op = "rate",
                       !.time = clock,
                       !.won_before = {u \in Threads \ {t} : pc[u] \in InFlight}]]
    /\ Goto(t, "load")
    /\ TrackPre
    /\ UNCHANGED <<meter, clock, marked, nmarks, settled, steps>>

\* A thread calls count or mean_rate, which starts by calling count.
CallCount(t, op) ==
    /\ pc[t] = "idle"
    /\ frame' = [frame EXCEPT ![t] = [NoFrame EXCEPT !.op = op]]
    /\ Goto(t, "count_lock")
    /\ UNCHANGED <<meter, clock, hist>>

\* new_tick - old_tick, or new_tick - age % INTERVAL_SECS after it, overflows.
TickOverflows(new_tick, old_tick) ==
    LET age == WrapSub(new_tick, old_tick)
    IN  \/ U64Less(new_tick, old_tick)
        \/ (/\ ~U64Less(age, INTERVAL_SECS)
            /\ U64Less(new_tick, U64Mod(age, INTERVAL_SECS)))

\* TickLoad without the early return.
TickLoadNoReturn(t) ==
    /\ pc[t] = "load"
    /\ LET new_tick == AsSecs(frame[t].time - start_time)
       IN  IF TickOverflows(new_tick, last_tick)
           THEN /\ overflow_checks /= "on"
                /\ overflow_checks' = "off"
           ELSE UNCHANGED overflow_checks
    /\ Goto(t, "cas")
    /\ frame' = [frame EXCEPT ![t].old_tick = last_tick]
    /\ UNCHANGED <<uncounted, last_tick, start_time, state, lock, clock, hist>>

\* tick_if_necessary: old_tick = self.last_tick.load(), then new_tick, age and
\* the early return, without an overflow or in a build that wraps.
TickLoad(t) ==
    /\ pc[t] = "load"
    /\ LET new_tick == AsSecs(frame[t].time - start_time)
           age == WrapSub(new_tick, last_tick)
       IN  /\ IF TickOverflows(new_tick, last_tick)
              THEN /\ overflow_checks /= "on"
                   /\ overflow_checks' = "off"
              ELSE UNCHANGED overflow_checks
           /\ IF U64Less(age, INTERVAL_SECS)
              THEN /\ Goto(t, AfterTick(t))
                   /\ frame' = [frame EXCEPT ![t] = Leave(@)]
              ELSE /\ Goto(t, "cas")
                   /\ frame' = [frame EXCEPT ![t].old_tick = last_tick]
    /\ UNCHANGED <<uncounted, last_tick, start_time, state, lock, clock, hist>>

\* tick_if_necessary: old_tick = self.last_tick.load(), and a subtraction
\* overflows in a build that checks overflow: the thread panics.
TickPanic(t) ==
    /\ pc[t] = "load"
    /\ TickOverflows(AsSecs(frame[t].time - start_time), last_tick)
    /\ overflow_checks /= "off"
    /\ overflow_checks' = "on"
    /\ frame' = [frame EXCEPT ![t] = Leave(@)]
    /\ Goto(t, "panicked")
    /\ UNCHANGED <<uncounted, last_tick, start_time, state, lock, clock, hist>>

\* tick_if_necessary: the compare_exchange of last_tick succeeds.
TickCasOk(t) ==
    /\ pc[t] = "cas"
    /\ last_tick = frame[t].old_tick
    /\ last_tick' = NewIntervalStartTick(t)
    /\ frame' = [frame EXCEPT ![t].ticked = TRUE]
    /\ Goto(t, "lock")
    /\ UNCHANGED <<uncounted, start_time, state, lock, overflow_checks,
                   clock, hist>>

\* TickCasErr that goes on with the tick although the compare_exchange failed.
TickCasErrTicks(t) ==
    /\ pc[t] = "cas"
    /\ last_tick /= frame[t].old_tick
    /\ Goto(t, "lock")
    /\ UNCHANGED <<meter, clock, frame, hist>>

\* tick_if_necessary: the compare_exchange fails, "another thread has already
\* ticked for us".
TickCasErr(t) ==
    /\ pc[t] = "cas"
    /\ last_tick /= frame[t].old_tick
    /\ frame' = [frame EXCEPT ![t] = Leave(@)]
    /\ Goto(t, AfterTick(t))
    /\ UNCHANGED <<meter, clock, hist>>

\* tick_if_necessary: let mut state = self.state.lock()
TickLock(t) ==
    /\ pc[t] = "lock"
    /\ lock = None
    /\ lock' = t
    /\ Goto(t, "swap")
    /\ UNCHANGED <<uncounted, last_tick, start_time, state, overflow_checks,
                   clock, frame, hist>>

\* TickSwap with a load in the place of the swap: uncounted is not reset.
TickSwapLoads(t) ==
    /\ pc[t] = "swap"
    /\ frame' = [frame EXCEPT ![t].uncounted = uncounted]
    /\ Goto(t, "fold")
    /\ UNCHANGED <<meter, clock, hist>>

\* tick_if_necessary: let uncounted = self.uncounted.swap(0)
TickSwap(t) ==
    /\ pc[t] = "swap"
    /\ frame' = [frame EXCEPT ![t].uncounted = uncounted]
    /\ uncounted' = 0
    /\ Goto(t, "fold")
    /\ UNCHANGED <<last_tick, start_time, state, lock, overflow_checks,
                   clock, hist>>

\* tick_if_necessary: state.count += uncounted
TickFold(t) ==
    /\ pc[t] = "fold"
    /\ state' = [state EXCEPT !.count = state.count + frame[t].uncounted]
    /\ frame' = [frame EXCEPT ![t].i = 1]
    /\ Goto(t, "ewma")
    /\ UNCHANGED <<uncounted, last_tick, start_time, lock, overflow_checks,
                   clock, hist>>

\* TickEwma that ticks with self.uncounted, not with the value swapped out.
TickEwmaShadowed(t) ==
    /\ pc[t] = "ewma"
    /\ LET w == Windows[frame[t].i]
       IN  state' = [state EXCEPT
                       ![w] = EwmaDecay(EwmaTick(state[w], uncounted),
                                        WrapSub(RequiredTicks(t), 1))]
    /\ IF frame[t].i < Len(Windows)
       THEN /\ frame' = [frame EXCEPT ![t].i = frame[t].i + 1]
            /\ UNCHANGED <<pc, lock, steps>>
       ELSE /\ lock' = None
            /\ steps' = [q |-> steps.q + RequiredSteps(t).q,
                         r |-> steps.r + RequiredSteps(t).r]
            /\ Goto(t, AfterTick(t))
            /\ frame' = [frame EXCEPT ![t] = Leave(@)]
    /\ UNCHANGED <<uncounted, last_tick, start_time, overflow_checks,
                   clock, marked, nmarks, settled, pre>>

\* tick_if_necessary: rate.tick(uncounted); rate.decay(required_ticks - 1) for
\* the next of the five rates; after the last one the function returns and
\* the guard is dropped.
TickEwma(t) ==
    /\ pc[t] = "ewma"
    /\ LET w == Windows[frame[t].i]
       IN  state' = [state EXCEPT
                       ![w] = EwmaDecay(EwmaTick(state[w], frame[t].uncounted),
                                        WrapSub(RequiredTicks(t), 1))]
    /\ IF frame[t].i < Len(Windows)
       THEN /\ frame' = [frame EXCEPT ![t].i = frame[t].i + 1]
            /\ UNCHANGED <<pc, lock, steps>>
       ELSE /\ lock' = None
            /\ steps' = [q |-> steps.q + RequiredSteps(t).q,
                         r |-> steps.r + RequiredSteps(t).r]
            /\ Goto(t, AfterTick(t))
            /\ frame' = [u \in Threads |->
                           IF u = t
                           THEN Leave(frame[t])
                           ELSE IF pc[u] = "done"
                                THEN frame[u]
                                ELSE [frame[u] EXCEPT !.won_before = @ \ {t}]]
    /\ UNCHANGED <<uncounted, last_tick, start_time, overflow_checks,
                   clock, marked, nmarks, settled, pre>>

\* MarkAdd that waits for the state lock before its fetch_add.
MarkAddLocked(t, n) ==
    /\ pc[t] = "add"
    /\ lock = None
    /\ uncounted' = uncounted + n
    /\ marked' = marked + n
    /\ frame' = [frame EXCEPT ![t].n = n]
    /\ Goto(t, "done")
    /\ UNCHANGED <<last_tick, start_time, state, lock, overflow_checks,
                   clock, nmarks, settled, pre, steps>>

\* MarkAdd with fetch_sub in the place of fetch_add.
MarkAddSubtracts(t, n) ==
    /\ pc[t] = "add"
    /\ uncounted' = uncounted - n
    /\ marked' = marked + n
    /\ frame' = [frame EXCEPT ![t].n = n]
    /\ Goto(t, "done")
    /\ UNCHANGED <<last_tick, start_time, state, lock, overflow_checks,
                   clock, nmarks, settled, pre, steps>>

\* mark: self.uncounted.fetch_add(n)
MarkAdd(t, n) ==
    /\ pc[t] = "add"
    /\ uncounted' = uncounted + n
    /\ marked' = marked + n
    /\ frame' = [frame EXCEPT ![t].n = n]
    /\ Goto(t, "done")
    /\ UNCHANGED <<last_tick, start_time, state, lock, overflow_checks,
                   clock, nmarks, settled, pre, steps>>

\* ten_second_rate, ...: self.state.lock().rate_10s.get(), ...
RateRead(t, w) ==
    /\ pc[t] = "read"
    /\ lock = None
    /\ frame' = [frame EXCEPT ![t].op = w, ![t].ret = EwmaGet(state[w])]
    /\ Goto(t, "done")
    /\ UNCHANGED <<meter, clock, hist>>

\* CountLock without the lock: state.count is read while a tick may hold it.
CountLockNoLock(t) ==
    /\ pc[t] = "count_lock"
    /\ frame' = [frame EXCEPT ![t].count = state.count]
    /\ Goto(t, "count_load")
    /\ UNCHANGED <<meter, clock, hist>>

\* count: self.state.lock().count, the guard living to the end of the function.
CountLock(t) ==
    /\ pc[t] = "count_lock"
    /\ lock = None
    /\ lock' = t
    /\ frame' = [frame EXCEPT ![t].count = state.count]
    /\ Goto(t, "count_load")
    /\ UNCHANGED <<uncounted, last_tick, start_time, state, overflow_checks,
                   clock, hist>>

\* count: + self.uncounted.load(), and the guard is dropped.  mean_rate goes
\* on with the value: 0. for a count of 0, a division otherwise.
CountLoad(t) ==
    /\ pc[t] = "count_load"
    /\ lock' = None
    /\ LET count == frame[t].count + uncounted
       IN  IF frame[t].op = "count"
           THEN /\ frame' = [frame EXCEPT ![t].count = 0, ![t].ret = count]
                /\ Goto(t, "done")
           ELSE IF ToF(count) = 0
                THEN /\ frame' = [frame EXCEPT ![t].count = 0, ![t].ret = 0]
                     /\ Goto(t, "done")
                ELSE /\ frame' = [frame EXCEPT ![t].count = count]
                     /\ Goto(t, "div")
    /\ UNCHANGED <<uncounted, last_tick, start_time, state, overflow_checks,
                   clock, hist>>

\* mean_rate: time = (self.clock.now() - self.start_time).as_secs_f64();
\* count / time
MeanDiv(t) ==
    /\ pc[t] = "div"
    /\ frame' = [frame EXCEPT
                    ![t].count = 0,
                    ![t].ret = FDiv(ToF(frame[t].count), AsSecsF64(clock - start_time))]
    /\ Goto(t, "done")
    /\ UNCHANGED <<meter, clock, hist>>

\* The call returns to its caller.
Return(t) ==
    /\ pc[t] = "done"
    /\ frame' = [frame EXCEPT ![t] = NoFrame]
    /\ Goto(t, "idle")
    /\ Track(IF frame[t].op = "mark" THEN settled
             ELSE IF frame[t].op \in WindowedOps \/ settled = "rate" THEN "rate"
             ELSE "count")
    /\ UNCHANGED <<meter, clock, marked, nmarks, pre, steps>>

\* The clock advances: TestClock::advance, or time passing.
Advance(d) ==
    /\ clock' = clock + d
    /\ Track(None)
    /\ UNCHANGED <<meter, pc, frame, marked, nmarks, pre, steps>>

\* --------------------------------------------------------- specifications

\* Threads call the meter concurrently, every step of every call interleaved.
Next ==
    \/ \E t \in Threads : nmarks < MaxMarks /\ CallMark(t)
    \/ \E t \in Threads : CallRate(t)
    \/ \E t \in Threads, op \in {"count", "mean_rate"} : CallCount(t, op)
    \/ \E t \in Threads : TickLoad(t)
    \/ \E t \in Threads : TickPanic(t)
    \/ \E t \in Threads : TickCasOk(t)
    \/ \E t \in Threads : TickCasErr(t)
    \/ \E t \in Threads : TickLock(t)
    \/ \E t \in Threads : TickSwap(t)
    \/ \E t \in Threads : TickFold(t)
    \/ \E t \in Threads : TickEwma(t)
    \/ \E t \in Threads, n \in MarkVals : MarkAdd(t, n)
    \/ \E t \in Threads, w \in WindowedOps : RateRead(t, w)
    \/ \E t \in Threads : CountLock(t)
    \/ \E t \in Threads : CountLoad(t)
    \/ \E t \in Threads : MeanDiv(t)
    \/ \E t \in Threads : Return(t)
    \/ \E d \in AdvanceSteps : clock + d <= MaxClock /\ Advance(d)

Spec == Init /\ [][Next]_vars

\* One thread calls the meter, and the clock (a TestClock) advances between
\* its calls only.  With a single caller no compare_exchange fails and no
\* subtraction overflows: TickCasErr and TickPanic take no part.
SeqNext ==
    \/ \E t \in SeqThreads : nmarks < SeqMaxMarks /\ CallMark(t)
    \/ \E t \in SeqThreads : CallRate(t)
    \/ \E t \in SeqThreads, op \in {"count", "mean_rate"} : CallCount(t, op)
    \/ \E t \in SeqThreads : TickLoad(t)
    \/ \E t \in SeqThreads : TickCasOk(t)
    \/ \E t \in SeqThreads : TickLock(t)
    \/ \E t \in SeqThreads : TickSwap(t)
    \/ \E t \in SeqThreads : TickFold(t)
    \/ \E t \in SeqThreads : TickEwma(t)
    \/ \E t \in SeqThreads, n \in MarkVals : MarkAdd(t, n)
    \/ \E t \in SeqThreads, w \in WindowedOps : RateRead(t, w)
    \/ \E t \in SeqThreads : CountLock(t)
    \/ \E t \in SeqThreads : CountLoad(t)
    \/ \E t \in SeqThreads : MeanDiv(t)
    \/ \E t \in SeqThreads : Return(t)
    \/ \E d \in SeqAdvanceSteps :
          /\ \A t \in Threads : pc[t] = "idle"
          /\ clock + d <= SeqMaxClock
          /\ Advance(d)

SeqSpec == SeqInit /\ [][SeqNext]_vars

\* ----------------------------------------------------------------- claims

RECURSIVE SumOver(_, _)
\* The sum of f[t] over the threads t of S.
SumOver(S, f) ==
    IF S = {} THEN 0
    ELSE LET t == CHOOSE u \in S : TRUE IN f[t] + SumOver(S \ {t}, f)

\* What swaps have taken out of uncounted and no tick has yet added to
\* state.count.
InFold == SumOver(Threads, [t \in Threads |->
                              IF pc[t] = "fold" THEN frame[t].uncounted ELSE 0])

Quiescent == \A t \in Threads : pc[t] \in {"idle", "done", "panicked"}

\* C1: count conservation.  Every n a mark has added is in uncounted, in
\* state.count or in the hands of the one tick that is moving it from the
\* first to the second; so once every call has returned, state.count +
\* uncounted, which is what count() returns, is the exact sum of the n.
C1_CountConservation ==
    /\ state.count + uncounted + InFold = marked
    /\ Quiescent => state.count + uncounted = marked

\* A mark arrived while another thread's tick, which had swapped an earlier
\* mark out of uncounted, was adding it to state.count.
C1_Witness ==
    \E t, u \in Threads :
        /\ pc[t] = "fold" /\ frame[t].uncounted /= 0
        /\ pc[u] = "done" /\ frame[u].op = "mark" /\ uncounted /= 0

\* C2: last_tick only ever advances, each time by a positive multiple of
\* INTERVAL_SECS.
C2_LastTickAdvances ==
    [][last_tick' /= last_tick =>
          /\ U64Less(last_tick, last_tick')
          /\ U64Mod(WrapSub(last_tick', last_tick), INTERVAL_SECS) = 0]_vars

\* C3: a windowed-rate accessor called after a compare_exchange has succeeded
\* returns a rate that the tick of that compare_exchange has been applied to.
C3_WonTickVisible ==
    \A t \in Threads :
        pc[t] = "done" /\ frame[t].op \in WindowedOps => frame[t].won_before = {}

\* C4: no partially applied tick is seen.  What count() returns is the sum of
\* the n added before it read uncounted, whatever tick is under way; and
\* when a windowed-rate accessor reads its rate, no tick is between the first
\* and the last of its updates of state.
C4_NoPartialTick ==
    [][\A t \in Threads :
          /\ (pc[t] = "count_load" /\ pc'[t] = "done" /\ frame'[t].op = "count")
                => frame'[t].ret = marked
          /\ (pc[t] = "read" /\ pc'[t] = "done")
                => \A u \in Threads : pc[u] \notin {"swap", "fold", "ewma"}]_vars

\* count() has returned a count other than 0 while another thread's tick,
\* its compare_exchange done, was still to be applied.
C4_Witness ==
    \E t, u \in Threads :
        /\ pc[t] = "done" /\ frame[t].op = "count" /\ frame[t].ret /= 0
        /\ pc[u] \in InFlight

\* Whole seconds on the clock since start_time, and whether fewer than
\* INTERVAL_SECS of them have passed since last_tick.
Elapsed == AsSecs(clock - start_time)

Current == U64Less(WrapSub(Elapsed, last_tick), INTERVAL_SECS)

Returned(t, ops) == pc[t] = "done" /\ frame[t].op \in ops

\* Whether an interval had elapsed since last_tick when a lone caller's last
\* call of mark or of a windowed-rate accessor started.
Due == ~U64Less(WrapSub(Elapsed, pre.last_tick), INTERVAL_SECS)

\* C5 as claimed: every accessor but count, mean_rate too, runs the tick
\* procedure first: when a lone caller's call has returned, last_tick is less
\* than an interval behind the clock's whole seconds, and what was uncounted
\* has been folded into state.count.
C5_AccessorsTickFirst ==
    \A t \in Threads :
        Returned(t, WindowedOps \cup {"mean_rate"}) =>
            /\ Current
            /\ uncounted = 0
            /\ state.count = marked

\* C5, amended: the windowed-rate accessors run the tick procedure first
\* (mean_rate, like count, does not).  When a lone caller's call of one has
\* returned, last_tick is less than an interval behind the whole seconds of
\* the clock the call read; if an interval had elapsed since last_tick the
\* call has made a tick that folded what was uncounted into state.count, and
\* if none had it has left uncounted, last_tick and state alone.
C5_WindowedAccessorsTickFirst ==
    \A t \in Threads :
        Returned(t, WindowedOps) =>
            /\ Current
            /\ frame[t].ticked = Due
            /\ Due =>
                  /\ uncounted = 0
                  /\ state.count = pre.state.count + pre.uncounted
                  /\ state.count = marked
            /\ ~Due =>
                  /\ uncounted = pre.uncounted
                  /\ last_tick = pre.last_tick
                  /\ state = pre.state

\* A windowed-rate accessor has returned from a tick over two intervals or
\* more that folded events into state.count.
C5_Witness ==
    \E t \in Threads :
        /\ Returned(t, WindowedOps) /\ frame[t].ticked
        /\ state.count /= 0
        /\ last_tick >= pre.last_tick + 2 * INTERVAL_SECS

\* C6: mean_rate never divides by zero: what it returns is no quotient by an
\* elapsed time of 0.
C6_MeanRateNoDivisionByZero ==
    \A t \in Threads :
        /\ pc[t] = "div" => AsSecsF64(clock - start_time) /= 0
        /\ Returned(t, {"mean_rate"}) => frame[t].ret \notin {PosInf, NegInf}

\* C7: as long as mark has not been called, nothing is counted and whatever
\* an accessor returns is 0, whatever ticks clock advances and accessor calls
\* have brought about.
C7_NoEvent ==
    nmarks = 0 =>
        /\ uncounted = 0
        /\ state.count = 0
        /\ \A i \in 1..Len(Windows) : state[Windows[i]].rate = 0
        /\ \A t \in Threads : pc[t] = "done" => frame[t].ret = 0

\* Without any mark, a windowed-rate accessor has returned from a second
\* tick, which covered two intervals or more.
C7_Witness ==
    /\ nmarks = 0
    /\ \E t \in Threads :
          /\ Returned(t, WindowedOps) /\ frame[t].ticked
          /\ pre.state.rate_10s.initialized
          /\ last_tick >= pre.last_tick + 2 * INTERVAL_SECS

\* What an accessor returns in the current state.
ValueOf(op) ==
    LET count == state.count + uncounted
    IN  CASE op = "count" -> count
          [] op = "mean_rate" ->
                IF ToF(count) = 0 THEN 0
                ELSE FDiv(ToF(count), AsSecsF64(clock - start_time))
          [] OTHER -> EwmaGet(state[op])

\* C8 as claimed: with the clock standing still and no mark called, once an
\* accessor has returned, accessor calls change nothing.
C8_IdempotentAfterAnyAccessor ==
    [][(settled /= None) => UNCHANGED <<last_tick, uncounted, state>>]_vars

\* C8, amended: with the clock standing still and no mark called, once a
\* windowed-rate accessor has returned, accessor calls leave last_tick,
\* uncounted, state.count and the five rates as they are, and what an
\* accessor returns is the value the unchanged state gives it.
C8_IdempotentAfterWindowedAccessor ==
    [][(settled = "rate") =>
          /\ UNCHANGED <<last_tick, uncounted, state>>
          /\ \A t \in Threads :
                pc[t] /= "done" /\ pc'[t] = "done" =>
                    frame'[t].ret = ValueOf(frame'[t].op)]_vars

\* After a windowed-rate accessor has returned from a tick that left positive
\* rates, a call of count has returned as well.
C8_Witness ==
    /\ settled = "rate"
    /\ state.count /= 0
    /\ state.rate_15m.rate > 0
    /\ \E t \in Threads : Returned(t, {"count"}) /\ frame[t].ret = state.count

RECURSIVE TickTimes(_, _, _)
\* e after k calls of tick(count).
TickTimes(e, count, k) ==
    IF k = 0 THEN e ELSE TickTimes(EwmaTick(e, count), count, k - 1)

\* C9: a tick that finds m >= 1 intervals elapsed and nothing uncounted
\* applies tick(0) and decay(m - 1) to each rate, and leaves the rate that m
\* calls of tick(0) leave, within the tolerance of f64 arithmetic.
C9_SkipAhead ==
    [][\A t \in Threads :
          pc[t] = "ewma" /\ frame[t].uncounted = 0 =>
              LET w == Windows[frame[t].i]
                  m == RequiredTicks(t)
                  stepwise == TickTimes(state[w], 0, m)
              IN  /\ m >= 1
                  /\ state'[w] = EwmaDecay(EwmaTick(state[w], 0), m - 1)
                  /\ state'[w].initialized = stepwise.initialized
                  /\ Abs(state'[w].rate - stepwise.rate) <= Tolerance]_vars

\* A tick over two intervals or more, with nothing uncounted, has updated a
\* rate that is still positive after it.
C9_Witness ==
    \E t \in Threads :
        /\ pc[t] = "ewma" /\ frame[t].i = Len(Windows)
        /\ frame[t].uncounted = 0
        /\ RequiredTicks(t) >= 2
        /\ state.rate_10s.rate > 0

\* C10: mark(n) runs the tick procedure before it adds n.  When a lone
\* caller's mark(n) has made a tick and returned, the tick has folded what
\* was uncounted before the call and ticked the rates with that, n is what
\* is uncounted, and state.count + uncounted, which count() returns and
\* mean_rate divides, includes n.  With 3 events in 10 seconds mean_rate
\* returns 0.3.
C10_MarkTicksBeforeAdding ==
    \A t \in Threads :
        /\ Returned(t, {"mark"}) /\ frame[t].ticked =>
              /\ uncounted = frame[t].n
              /\ state.count = pre.state.count + pre.uncounted
              /\ state.count + uncounted = marked
              /\ \A i \in 1..Len(Windows) :
                    state[Windows[i]] =
                        EwmaDecay(EwmaTick(pre.state[Windows[i]], pre.uncounted),
                                  U64Div(WrapSub(Elapsed, pre.last_tick),
                                         INTERVAL_SECS) - 1)
        /\ Returned(t, {"mean_rate"}) /\ marked = 3 /\ Elapsed = 10
                /\ clock - start_time = 10 * SubSec =>
              Abs(frame[t].ret - (3 * Scale) \div 10) <= Tolerance

\* The test marks_events_and_updates_rate_and_count: mark(1), 10 seconds,
\* mark(2); the count is 3 and the rates are those of the one event.
C10_Witness ==
    \E t \in Threads :
        /\ Returned(t, {"mark"}) /\ frame[t].ticked /\ frame[t].n = 2
        /\ pre.uncounted = 1 /\ pre.last_tick = 0
        /\ ~pre.state.rate_1m.initialized
        /\ clock - start_time = 10 * SubSec
        /\ state.count + uncounted = 3
        /\ Abs(state.rate_1m.rate - 1840) <= Tolerance
        /\ Abs(state.rate_5m.rate - 1966) <= Tolerance
        /\ Abs(state.rate_15m.rate - 1988) <= Tolerance

\* C11: the first tick of a meter seeds each rate without blending: a tick
\* that folds d over m intervals into an Ewma not yet initialized leaves it
\* initialized with rate (d / 5) * (1 - alpha)^(m - 1); a later tick blends,
\* rate + alpha * (d / 5 - rate), before it decays.
C11_FirstTickSeeds ==
    [][\A t \in Threads :
          pc[t] = "ewma" =>
              LET w == Windows[frame[t].i]
                  e == state[w]
                  d == FDiv(ToF(frame[t].uncounted), ToF(INTERVAL_SECS))
                  m == RequiredTicks(t)
                  keep == Powi(ToF(1) - e.alpha, m - 1)
              IN  /\ state'[w].initialized
                  /\ state'[w].alpha = e.alpha
                  /\ ~e.initialized => e.rate = 0 /\ state'[w].rate = FMul(d, keep)
                  /\ e.initialized =>
                        state'[w].rate = FMul(e.rate + FMul(e.alpha, d - e.rate), keep)]_vars

\* The test's instance: the first tick has folded d = 1 over m = 2 intervals
\* and left the one-minute rate 0.2 * (1 - alpha).
C11_Witness ==
    \E t \in Threads :
        /\ Returned(t, {"mark"}) /\ frame[t].ticked
        /\ ~pre.state.rate_1m.initialized /\ pre.uncounted = 1
        /\ last_tick = pre.last_tick + 2 * INTERVAL_SECS
        /\ state.rate_1m.initialized
        /\ state.rate_1m.rate = FMul((2 * Scale) \div 10, ToF(1) - state.rate_1m.alpha)
        /\ state.rate_1m.rate > 0

\* Concurrent callers of a meter that counts events: every n marked is >= 0.
\* The clock goes on for two intervals, so that a rate is blended with a
\* smaller instant rate.
NonNegMaxClock == 23

NonNegMaxMarks == 1

NonNegMarkVals == {n \in MarkVals : n >= 0}

\* The clock advances by an interval and a half second.
NonNegAdvanceSteps == {11}

NonNegNext ==
    \/ \E t \in Threads : nmarks < NonNegMaxMarks /\ CallMark(t)
    \/ \E t \in Threads : CallRate(t)
    \/ \E t \in Threads : TickLoad(t)
    \/ \E t \in Threads : TickPanic(t)
    \/ \E t \in Threads : TickCasOk(t)
    \/ \E t \in Threads : TickCasErr(t)
    \/ \E t \in Threads : TickLock(t)
    \/ \E t \in Threads : TickSwap(t)
    \/ \E t \in Threads : TickFold(t)
    \/ \E t \in Threads : TickEwma(t)
    \/ \E t \in Threads, n \in NonNegMarkVals : MarkAdd(t, n)
    \/ \E t \in Threads, w \in WindowedOps : RateRead(t, w)
    \/ \E t \in Threads : Return(t)
    \/ \E d \in NonNegAdvanceSteps : clock + d <= NonNegMaxClock /\ Advance(d)

NonNegSpec == Init /\ [][NonNegNext]_vars

\* C12: when every n marked is >= 0, uncounted, state.count and the five
\* rates are >= 0 in every reachable state.
C12_NonNegative ==
    /\ uncounted >= 0
    /\ state.count >= 0
    /\ \A i \in 1..Len(Windows) : state[Windows[i]].rate >= 0
    /\ \A t \in Threads : frame[t].uncounted >= 0 /\ frame[t].ret >= 0

\* A second tick has blended a positive rate with the instant rate 0 of an
\* interval without events.
C12_Witness ==
    /\ state.count > 0
    /\ \E t \in Threads :
          /\ pc[t] = "ewma" /\ frame[t].i = Len(Windows) /\ frame[t].uncounted = 0
          /\ state.rate_15m.rate > 0
          /\ state.rate_10s.rate > 0

\* C13: one winner per batch.  Of the callers that loaded the same last_tick
\* and found an interval elapsed, the compare_exchange of one succeeds: it
\* moves last_tick, so that the others' fail, and no other winner of the same
\* value is under way.  Only a winner goes on to the lock, the swap and the
\* updates of the state; a loser returns from tick_if_necessary at once, and
\* its compare_exchange leaves uncounted, last_tick, the state and the lock
\* as they are.
C13_OneWinner ==
    [][\A t \in Threads :
          /\ pc[t] \in InFlight => frame[t].ticked
          /\ pc'[t] \in InFlight => frame'[t].ticked
          /\ (pc[t] = "cas" /\ pc'[t] /= "cas") =>
                IF last_tick = frame[t].old_tick
                THEN /\ pc'[t] = "lock"
                     /\ last_tick' /= last_tick
                     /\ \A u \in Threads \ {t} :
                           /\ pc[u] \in InFlight =>
                                 frame[u].old_tick /= frame[t].old_tick
                           /\ (pc[u] = "cas" /\ frame[u].old_tick = frame[t].old_tick) =>
                                 last_tick' /= frame'[u].old_tick
                ELSE /\ pc'[t] \in {"add", "read"}
                     /\ ~frame'[t].ticked
                     /\ UNCHANGED <<uncounted, last_tick, state, lock>>]_vars

\* Two callers loaded the same last_tick and found an interval elapsed; the
\* compare_exchange of one has succeeded and the other's is still to come.
C13_Witness ==
    \E t, u \in Threads :
        /\ pc[t] \in InFlight /\ frame[t].ticked
        /\ pc[u] = "cas" /\ frame[u].old_tick = frame[t].old_tick
        /\ last_tick /= frame[u].old_tick
        /\ uncounted /= 0

\* steps * INTERVAL_SECS = last_tick, on the numbers the two stand for:
\* steps.q * (2^64 - 1) + 5 * steps.r, and last_tick or 2^64 + last_tick.
StepsMatchLastTick ==
    IF last_tick >= 0
    THEN steps.q = 0 /\ INTERVAL_SECS * steps.r = last_tick
    ELSE steps.q = 1 /\ INTERVAL_SECS * steps.r - 1 = last_tick

\* C14: lazy ticking makes as many interval steps as a ticker of fixed
\* cadence: whenever no tick is under way, each Ewma has received
\* last_tick / INTERVAL_SECS steps in all.
C14_FixedCadenceSteps ==
    (\A t \in Threads : pc[t] \notin InFlight) => StepsMatchLastTick

\* C15: the fast path of mark is lock-free.  A mark(n) whose call found no
\* interval elapsed, or lost the compare_exchange, takes each of its steps
\* whoever holds the state lock, never takes the lock itself, and changes
\* nothing but uncounted, by + n: last_tick and the state stay as they are.
C15_MarkFastPath ==
    [][\A t \in Threads :
          (frame[t].op = "mark" /\ ~frame[t].ticked) =>
              /\ pc[t] = "add" => ENABLED MarkAdd(t, 1)
              /\ (pc[t] = "cas" /\ last_tick /= frame[t].old_tick) =>
                    ENABLED TickCasErr(t)
              /\ lock /= t
              /\ (pc[t] \in {"load", "cas", "add"} /\ pc'[t] /= pc[t]
                        /\ ~frame'[t].ticked) =>
                    /\ lock' = lock
                    /\ last_tick' = last_tick
                    /\ state' = state
                    /\ uncounted' = IF pc[t] = "add"
                                    THEN uncounted + frame'[t].n
                                    ELSE uncounted]_vars

\* A mark that made no tick has added its n and returned while another
\* thread, which had swapped uncounted out before, held the lock for its tick.
C15_Witness ==
    \E t, u \in Threads :
        /\ Returned(t, {"mark"}) /\ ~frame[t].ticked /\ frame[t].n /= 0
        /\ lock = u /\ pc[u] = "fold" /\ frame[u].uncounted = 0
        /\ uncounted = frame[t].n

\* The largest k that decay(k) is compared with k calls of tick(0) for.
MaxDecay == 6

\* The rate of e, and e after decay(k) and after k calls of tick(0).
DecayAgrees(e, k) ==
    LET closed == EwmaDecay(e, k)
        stepwise == TickTimes(e, 0, k)
    IN  /\ Abs(closed.rate - stepwise.rate) <= Tolerance
        /\ closed.alpha = e.alpha
        /\ closed.initialized
        /\ k = 0 => closed = e
        /\ e.rate > Tolerance => closed.rate <= e.rate /\ closed.rate >= 0

\* C16: for an initialized Ewma, each one a tick of the meter is about to
\* decay, and k >= 0, decay(k) leaves the rate that k calls of tick(0)
\* leave, rate * (1 - alpha)^k, within the tolerance of f64 arithmetic, and
\* changes nothing else; decay(0) is a no-op.
C16_DecayClosedForm ==
    \A t \in Threads :
        pc[t] = "ewma" =>
            LET e == EwmaTick(state[Windows[frame[t].i]], frame[t].uncounted)
            IN  /\ e.initialized
                /\ \A k \in 0..MaxDecay : DecayAgrees(e, k)

\* A tick over two intervals or more is about to decay an Ewma with a
\* positive rate, which decay(MaxDecay) makes smaller by more than the
\* tolerance.
C16_Witness ==
    \E t \in Threads :
        /\ pc[t] = "ewma" /\ RequiredTicks(t) >= 2
        /\ LET e == EwmaTick(state[Windows[frame[t].i]], frame[t].uncounted)
           IN  /\ e.rate > 0
               /\ state[Windows[frame[t].i]].initialized
               /\ EwmaDecay(e, MaxDecay).rate < e.rate - Tolerance

\* The steps of its call that a thread takes without waiting for anything.
ThreadStep(t) ==
    \/ TickLoad(t)
    \/ TickPanic(t)
    \/ TickCasOk(t)
    \/ TickCasErr(t)
    \/ TickSwap(t)
    \/ TickFold(t)
    \/ TickEwma(t)
    \/ \E n \in MarkVals : MarkAdd(t, n)
    \/ CountLoad(t)
    \/ MeanDiv(t)

\* The steps that take the state lock, which may have to wait for it.
LockStep(t) ==
    \/ TickLock(t)
    \/ CountLock(t)
    \/ \E w \in WindowedOps : RateRead(t, w)

\* Concurrent callers under fair scheduling: a thread that can take a step
\* of its call takes it in the end, and a thread waiting for the lock gets it
\* if the lock is free again and again (parking_lot's Mutex is eventually
\* fair).
FairSpec ==
    /\ Init
    /\ [][Next]_vars
    /\ \A t \in Threads : WF_vars(ThreadStep(t)) /\ SF_vars(LockStep(t))

\* C17: every operation completes.  Under fair scheduling a call that has
\* started returns in the end; the state lock is held only from its
\* acquisition to the end of the tick or of count's sum, by a thread that is
\* not waiting for it, and a failed compare_exchange is not tried again.
C17_EveryCallReturns ==
    /\ \A t \in Threads : (pc[t] /= "idle") ~> (pc[t] = "done")
    /\ [](\A t \in Threads :
             /\ lock = t => pc[t] \in {"swap", "fold", "ewma", "count_load"}
             /\ pc[t] \in {"swap", "fold", "ewma", "count_load"} => lock = t)

\* C18: decay saturates.  decay(ticks) with ticks above i32::MAX sets the
\* rate to 0, and within the range multiplies it by (1 - alpha)^ticks; and no
\* run of the tick procedure ends in an error for its caller.
C18_DecaySaturates ==
    [][\A t \in Threads :
          /\ pc'[t] /= "panicked"
          /\ (pc[t] = "ewma" /\ frame'[t] /= frame[t]) =>
                LET w == Windows[frame[t].i]
                    e == EwmaTick(state[w], frame[t].uncounted)
                    ticks == WrapSub(RequiredTicks(t), 1)
                IN  IF ticks < 0 \/ ticks > I32Max
                    THEN state'[w].rate = 0
                    ELSE state'[w].rate = FMul(e.rate, Powi(ToF(1) - e.alpha, ticks))]_vars

\* C19: the unsigned subtractions of the tick procedure never underflow: no
\* subtraction has wrapped or panicked, the new_tick of a caller is at least
\* the last_tick it loaded, and required_ticks is at least 1 wherever
\* decay(required_ticks - 1) is evaluated.
C19_NoUnderflow ==
    /\ overflow_checks = "any"
    /\ \A t \in Threads :
          /\ pc[t] /= "panicked"
          /\ pc[t] \in {"cas"} \cup InFlight =>
                /\ ~U64Less(NewTick(t), frame[t].old_tick)
                /\ Age(t) >= 0
                /\ RequiredTicks(t) >= 1

\* Thread t has won the compare_exchange for the batch of intervals from
\* its old_tick to its new_interval_start_tick, neither subtraction
\* overflowing.
WonBatch(t) ==
    /\ pc[t] \in InFlight
    /\ frame[t].ticked
    /\ ~TickOverflows(NewTick(t), frame[t].old_tick)

\* C20: ticks are applied in the order of their compare_exchanges: while a
\* caller that won the compare_exchange of an earlier batch has not yet
\* swapped uncounted out, no caller that won the compare_exchange of a
\* later batch has swapped it.
C20_TicksInCasOrder ==
    \A a, b \in Threads :
        (/\ WonBatch(a) /\ pc[a] \in {"lock", "swap"}
         /\ WonBatch(b) /\ pc[b] \in {"fold", "ewma"})
            => ~(NewIntervalStartTick(a) <= frame[b].old_tick)

====
